---- MODULE Spec2Model ----
(***************************************************************************)
(* A model of the exchange bot of src/main.py: the conversation handler    *)
(* (start, handle_operation, process_amount, handle_confirmation), the     *)
(* price lookup with its retry loop (BinanceAPI.get_price) and the two     *)
(* persistence sinks (DatabaseManager.save_transaction and                 *)
(* DataExporter.save_to_csv).                                              *)
(*                                                                         *)
(* Numbers.  Python floats are modelled as exact rationals n/d in lowest   *)
(* terms, plus the two special values the code can come to hold: nan and   *)
(* +/-inf (float("nan") and float("inf") both parse).  The handlers of the *)
(* conversation compute on them exactly; no claim checked there depends on *)
(* rounding.  process_amount's arithmetic as CPython carries it out, in    *)
(* IEEE 754 binary64, is ProcessAmount64, which SpecCalc runs.             *)
(*                                                                         *)
(* Texts.  A text is a sequence of one-character strings, so that          *)
(* float(text.replace(',', '.')) is computed by a parser and not assumed.  *)
(***************************************************************************)
EXTENDS Integers, Sequences, FiniteSets, TLC

\* ------------------------------------------------------------------ bounds
\* The durable store holds at most MaxRows rows under Spec and SpecButtons.
MaxRows == 1

\* The clock of the durable store counts whole seconds up to MaxTime.
MaxTime == 1

\* The durable store holds at most MaxLedgerRows rows under SpecLedger.
MaxLedgerRows == 3

\* The durable store holds at most MaxTwoRows rows under SpecTwo.
MaxTwoRows == 2

\* A user has at most MaxShown summaries with buttons on display.
MaxShown == 2

\* ----------------------------------------------------------------- numbers
RECURSIVE Gcd(_, _)
Gcd(a, b) == IF b = 0 THEN a ELSE Gcd(b, a % b)

Abs(x) == IF x < 0 THEN -x ELSE x

\* The rational n/d (d # 0) in lowest terms with a positive denominator.
Num(n, d) ==
    LET s == IF d < 0 THEN -1 ELSE 1
        g == Gcd(Abs(n), Abs(d))
    IN  [k |-> "num", n |-> (s * n) \div g, d |-> (s * d) \div g]

NaN == [k |-> "nan", n |-> 0, d |-> 1]

\* The NULL of a REAL column.
Null == [k |-> "null", n |-> 0, d |-> 1]
Inf(sign) == [k |-> "inf", n |-> sign, d |-> 1]

Sign(x) == IF x.n > 0 THEN 1 ELSE IF x.n < 0 THEN -1 ELSE 0

\* x * y on floats.
FMul(x, y) ==
    IF x.k = "nan" \/ y.k = "nan" THEN NaN
    ELSE IF x.k = "inf" \/ y.k = "inf"
         THEN IF Sign(x) * Sign(y) = 0 THEN NaN ELSE Inf(Sign(x) * Sign(y))
         ELSE Num(x.n * y.n, x.d * y.d)

\* x - y on floats.
FSub(x, y) ==
    IF x.k = "nan" \/ y.k = "nan" THEN NaN
    ELSE IF x.k = "inf"
         THEN IF y.k = "inf" /\ y.n = x.n THEN NaN ELSE x
         ELSE IF y.k = "inf" THEN Inf(-y.n)
              ELSE Num(x.n * y.d - y.n * x.d, x.d * y.d)

\* x / y on floats; y = 0 raises ZeroDivisionError (ok = FALSE).
FDiv(x, y) ==
    IF y.k = "num" /\ y.n = 0 THEN [ok |-> FALSE, v |-> NaN]
    ELSE [ok |-> TRUE,
          v |-> IF x.k = "nan" \/ y.k = "nan" THEN NaN
                ELSE IF x.k = "inf"
                     THEN IF y.k = "inf" THEN NaN ELSE Inf(Sign(x) * Sign(y))
                     ELSE IF y.k = "inf" THEN Num(0, 1)
                          ELSE Num(x.n * y.d, x.d * y.n)]

\* x <= 0 on floats (every comparison with nan is false).
FLeZero(x) == x.k # "nan" /\ x.n <= 0

\* x > 0 on floats.
FPositive(x) == x.k # "nan" /\ x.n > 0

\* bool(x) of a float: only 0.0 is falsy (nan is truthy).
Truthy(x) == ~(x.k = "num" /\ x.n = 0)

\* EXCHANGE_TYPES = {"crypto": 0.02, "cleaning": 0.10}
EXCHANGE_TYPES == [crypto |-> Num(2, 100), cleaning |-> Num(10, 100)]

\* ---------------------------------------------------------------- binary64
\* The arithmetic of CPython's float, for the finite values: IEEE 754
\* binary64, round to nearest, ties to even.  Significands exceed the
\* integers of the model checker, so a natural number of any size is held
\* as its digits to the base Limb = 2^15, the lowest first, without leading
\* zeros (0 is <<>>).
Limb == 32768

RECURSIVE Trim(_)
Trim(x) == IF x # <<>> /\ x[Len(x)] = 0 THEN Trim(SubSeq(x, 1, Len(x) - 1)) ELSE x

RECURSIVE FromInt(_)
FromInt(n) == IF n = 0 THEN <<>> ELSE <<n % Limb>> \o FromInt(n \div Limb)

RECURSIVE AddCarry(_, _, _)
AddCarry(x, y, c) ==
    IF x = <<>> /\ y = <<>> THEN FromInt(c)
    ELSE LET a == IF x = <<>> THEN 0 ELSE x[1]
             b == IF y = <<>> THEN 0 ELSE y[1]
             s == a + b + c
         IN  <<s % Limb>> \o AddCarry(IF x = <<>> THEN x ELSE Tail(x),
                                      IF y = <<>> THEN y ELSE Tail(y), s \div Limb)

BAdd(x, y) == AddCarry(x, y, 0)

\* x - y for x >= y.
RECURSIVE SubBorrow(_, _, _)
SubBorrow(x, y, c) ==
    IF x = <<>> THEN <<>>
    ELSE LET b == IF y = <<>> THEN 0 ELSE y[1]
             d == x[1] - b - c
         IN  <<d % Limb>> \o SubBorrow(Tail(x), IF y = <<>> THEN y ELSE Tail(y),
                                       IF d < 0 THEN 1 ELSE 0)

BSub(x, y) == Trim(SubBorrow(x, y, 0))

\* -1, 0 or 1 as x is below, equal to or above y.
RECURSIVE CmpFrom(_, _, _)
CmpFrom(x, y, i) ==
    IF i = 0 THEN 0
    ELSE IF x[i] < y[i] THEN -1
    ELSE IF x[i] > y[i] THEN 1
    ELSE CmpFrom(x, y, i - 1)

BCmp(x, y) ==
    IF Len(x) < Len(y) THEN -1
    ELSE IF Len(x) > Len(y) THEN 1
    ELSE CmpFrom(x, y, Len(x))

RECURSIVE MulSmallCarry(_, _, _)
MulSmallCarry(x, k, c) ==
    IF x = <<>> THEN FromInt(c)
    ELSE LET p == x[1] * k + c
         IN  <<p % Limb>> \o MulSmallCarry(Tail(x), k, p \div Limb)

\* x * k for 0 <= k < Limb.
BMulSmall(x, k) == Trim(MulSmallCarry(x, k, 0))

RECURSIVE BMul(_, _)
BMul(x, y) ==
    IF x = <<>> \/ y = <<>> THEN <<>>
    ELSE BAdd(BMulSmall(x, y[1]),
              LET rest == BMul(x, Tail(y))
              IN  IF rest = <<>> THEN rest ELSE <<0>> \o rest)

RECURSIVE Pow2(_)
Pow2(n) == IF n = 0 THEN 1 ELSE 2 * Pow2(n - 1)

RECURSIVE SmallBits(_)
SmallBits(n) == IF n = 0 THEN 0 ELSE 1 + SmallBits(n \div 2)

\* The number of binary digits of x.
BitLen(x) == IF x = <<>> THEN 0 ELSE 15 * (Len(x) - 1) + SmallBits(x[Len(x)])

\* x * 2^n
Shl(x, n) ==
    IF x = <<>> THEN x
    ELSE [i \in 1..(n \div 15) |-> 0] \o BMulSmall(x, Pow2(n % 15))

\* x \div 2^n
Shr(x, n) ==
    IF n \div 15 >= Len(x) THEN <<>>
    ELSE LET y == SubSeq(x, n \div 15 + 1, Len(x))
             k == Pow2(n % 15)
         IN  Trim([i \in 1..Len(y) |->
                     y[i] \div k
                     + (IF i < Len(y) THEN (y[i + 1] % k) * (Limb \div k) ELSE 0)])

\* The binary digit of x of weight 2^i.
Bit(x, i) ==
    IF i \div 15 >= Len(x) THEN 0 ELSE (x[i \div 15 + 1] \div Pow2(i % 15)) % 2

\* The largest k in lo..hi with d * k <= r.
RECURSIVE QuotientDigit(_, _, _, _)
QuotientDigit(r, d, lo, hi) ==
    IF lo = hi THEN lo
    ELSE LET mid == (lo + hi + 1) \div 2
         IN  IF BCmp(BMulSmall(d, mid), r) <= 0
             THEN QuotientDigit(r, d, mid, hi)
             ELSE QuotientDigit(r, d, lo, mid - 1)

\* Quotient and remainder of x by d (d # 0), limb by limb from the top.
RECURSIVE DivFrom(_, _, _, _, _)
DivFrom(x, d, i, q, r) ==
    IF i = 0 THEN [q |-> Trim(q), r |-> r]
    ELSE LET r2 == Trim(<<x[i]>> \o r)
             qd == QuotientDigit(r2, d, 0, Limb - 1)
         IN  DivFrom(x, d, i - 1, <<qd>> \o q, BSub(r2, BMulSmall(d, qd)))

BDivMod(x, d) == DivFrom(x, d, Len(x), <<>>, <<>>)

\* A finite double: sign n (-1, 0, 1) and magnitude m * 2^e with m of 53
\* binary digits (0 is m = <<>>, e = 0).  The range of the exponent is not
\* modelled: no overflow to inf and no subnormals.
Zero64 == [k |-> "num", n |-> 0, m |-> <<>>, e |-> 0]

\* sign * m * 2^e (with a sticky bit: some lower digits were cut off m
\* already), rounded to nearest, ties to even.
Round64(sign, m, e, sticky) ==
    IF m = <<>> THEN Zero64
    ELSE LET len == BitLen(m)
         IN  IF len <= 53
             THEN [k |-> "num", n |-> sign, m |-> Shl(m, 53 - len), e |-> e - (53 - len)]
             ELSE LET sh   == len - 53
                      q    == Shr(m, sh)
                      rem  == BSub(m, Shl(q, sh))
                      c    == BCmp(rem, Shl(<<1>>, sh - 1))
                      up   == c > 0 \/ (c = 0 /\ (sticky \/ Bit(q, 0) = 1))
                      q2   == IF up THEN BAdd(q, <<1>>) ELSE q
                  IN  IF BitLen(q2) > 53
                      THEN [k |-> "num", n |-> sign, m |-> Shr(q2, 1), e |-> e + sh + 1]
                      ELSE [k |-> "num", n |-> sign, m |-> q2, e |-> e + sh]

Mul64(x, y) == Round64(x.n * y.n, BMul(x.m, y.m), x.e + y.e, FALSE)

Neg64(x) == [x EXCEPT !.n = -x.n]

Add64(x, y) ==
    IF x.n = 0 THEN y
    ELSE IF y.n = 0 THEN x
    ELSE LET e0 == IF x.e < y.e THEN x.e ELSE y.e
             mx == Shl(x.m, x.e - e0)
             my == Shl(y.m, y.e - e0)
             c  == BCmp(mx, my)
         IN  IF x.n = y.n THEN Round64(x.n, BAdd(mx, my), e0, FALSE)
             ELSE IF c = 0 THEN Zero64
             ELSE IF c > 0 THEN Round64(x.n, BSub(mx, my), e0, FALSE)
             ELSE Round64(y.n, BSub(my, mx), e0, FALSE)

Sub64(x, y) == Add64(x, Neg64(y))

\* x / y for y # 0.
Div64(x, y) ==
    IF x.n = 0 THEN Zero64
    ELSE LET d == BDivMod(Shl(x.m, 60), y.m)
         IN  Round64(x.n * y.n, d.q, x.e - y.e - 60, d.r # <<>>)

\* The double of an integer below 2^31 in magnitude.
Int64(i) ==
    Round64(IF i < 0 THEN -1 ELSE IF i > 0 THEN 1 ELSE 0,
            FromInt(IF i < 0 THEN -i ELSE i), 0, FALSE)

\* The double nearest to n/d.
Num64(n, d) == Div64(Int64(n), Int64(d))

\* The double nearest to the rational x: what float(text) and a literal such
\* as 0.10 hold.  nan and inf stay what they are.
Binary64(x) == IF x.k = "num" THEN Num64(x.n, x.d) ELSE x

\* x * y, x - y and x / y on floats in binary64 (nan and inf as above).
FMul64(x, y) == IF x.k = "num" /\ y.k = "num" THEN Mul64(x, y) ELSE FMul(x, y)

FAdd64(x, y) == IF x.k = "num" /\ y.k = "num" THEN Add64(x, y) ELSE FSub(x, [y EXCEPT !.n = -y.n])

FSub64(x, y) == IF x.k = "num" /\ y.k = "num" THEN Sub64(x, y) ELSE FSub(x, y)

FDiv64(x, y) ==
    IF x.k = "num" /\ y.k = "num" /\ y.n # 0
    THEN [ok |-> TRUE, v |-> Div64(x, y)]
    ELSE FDiv(x, y)

\* ------------------------------------------------------------------- texts
Digits == {"0", "1", "2", "3", "4", "5", "6", "7", "8", "9"}

DigitVal(c) ==
    CASE c = "0" -> 0 [] c = "1" -> 1 [] c = "2" -> 2 [] c = "3" -> 3
      [] c = "4" -> 4 [] c = "5" -> 5 [] c = "6" -> 6 [] c = "7" -> 7
      [] c = "8" -> 8 [] c = "9" -> 9

\* text.replace(',', '.')
ReplaceComma(s) == [i \in 1..Len(s) |-> IF s[i] = "," THEN "." ELSE s[i]]

RECURSIVE DigitsVal(_)
DigitsVal(s) ==
    IF s = <<>> THEN 0
    ELSE 10 * DigitsVal(SubSeq(s, 1, Len(s) - 1)) + DigitVal(s[Len(s)])

RECURSIVE Pow10(_)
Pow10(e) == IF e = 0 THEN 1 ELSE 10 * Pow10(e - 1)

\* float(s) on the texts built from a sign, digits, one point and the words
\* nan and inf: ok = FALSE is ValueError.
ParseFloat(s) ==
    LET signed == s # <<>> /\ s[1] \in {"-", "+"}
        sgn    == IF signed /\ s[1] = "-" THEN -1 ELSE 1
        body   == IF signed THEN SubSeq(s, 2, Len(s)) ELSE s
        dots   == {i \in 1..Len(body) : body[i] = "."}
        dot    == IF dots = {} THEN Len(body) + 1 ELSE CHOOSE i \in dots : TRUE
        ip     == SubSeq(body, 1, dot - 1)
        fp     == SubSeq(body, dot + 1, Len(body))
        wellformed ==
            /\ Cardinality(dots) <= 1
            /\ \A i \in 1..Len(body) : body[i] \in Digits \cup {"."}
            /\ Len(ip) + Len(fp) >= 1
    IN  IF body = <<"n", "a", "n">> THEN [ok |-> TRUE, v |-> NaN]
        ELSE IF body = <<"i", "n", "f">> THEN [ok |-> TRUE, v |-> Inf(sgn)]
        ELSE IF wellformed
             THEN [ok |-> TRUE,
                   v |-> Num(sgn * (DigitsVal(ip) * Pow10(Len(fp)) + DigitsVal(fp)),
                             Pow10(Len(fp)))]
             ELSE [ok |-> FALSE, v |-> NaN]

\* ------------------------------------------------------------ configuration
\* SUPPORTED_PAIRS; Python's None is the text "None", which is what the
\* f-string of get_price puts in the request for it.
SUPPORTED_PAIRS ==
    ("BTC-USDT" :> "BTCUSDT") @@ ("ETH-USDT" :> "ETHUSDT") @@
    ("BNB-USDT" :> "BNBUSDT") @@ ("XRP-USDT" :> "XRPUSDT") @@
    ("TRX-USDT" :> "TRXUSDT") @@ ("cleaning" :> "None")

\* SUPPORTED_PAIRS.get(key)
PairSymbol(key) ==
    IF key \in DOMAIN SUPPORTED_PAIRS THEN SUPPORTED_PAIRS[key] ELSE "None"

\* The callback data of the buttons of the start menu.
MenuButtons == {"BTC-USDT", "USDT-BTC", "ETH-USDT", "USDT-ETH", "cleaning"}

\* The callback data of the buttons under a summary.
ConfirmButtons == {"confirm", "cancel"}

\* operation.split('-') on the callback data a button can carry.
Split(op) ==
    CASE op = "BTC-USDT" -> <<"BTC", "USDT">>
      [] op = "USDT-BTC" -> <<"USDT", "BTC">>
      [] op = "ETH-USDT" -> <<"ETH", "USDT">>
      [] op = "USDT-ETH" -> <<"USDT", "ETH">>
      [] OTHER -> <<op>>

\* The chat users: 101 has a username, 202 has none.
Users == {101, 202}

\* user.username or f"user_{user.id}"
DisplayName(u) == IF u = 101 THEN "alice" ELSE "user_" \o ToString(u)

\* The user record process_amount stores in the session.
UserInfo(u) == [id |-> u, username |-> DisplayName(u)]

\* ----------------------------------------------------------------- session
\* context.user_data is a dict: a function whose domain is the keys set.
EmptyDict == [key \in {} |-> 0]

Put(d, key, val) ==
    [x \in DOMAIN d \cup {key} |-> IF x = key THEN val ELSE d[x]]

Has(d, key) == key \in DOMAIN d

\* ------------------------------------------------------------ quote source
\* The symbols the external quote source lists.
Market == {"BTCUSDT", "ETHUSDT", "BNBUSDT", "XRPUSDT", "TRXUSDT"}

\* The price fields a successful response may carry.
PriceTexts ==
    { <<"5", "0", "0", "0", "0">>, <<"0">>, <<"-", "1">>, <<"a", "b", "c">> }

Response(status, body, price) == [status |-> status, body |-> body, price |-> price]

\* What the source may answer to one request for a symbol it lists: a
\* network-layer failure, or a successful response whose body is not JSON,
\* has no price field, has a null price, or has a price text.
Answers ==
    { Response(s, "", <<>>) : s \in {"timeout", "conn_error", "http_error"} }
    \cup { Response("ok", b, <<>>) : b \in {"bad_json", "no_key", "null"} }
    \cup { Response("ok", "price", p) : p \in PriceTexts }

\* A request for a symbol the source does not list is answered with an error
\* status whatever the source would answer for a listed one.
Respond(symbol, answer) ==
    IF symbol \in Market THEN answer ELSE Response("http_error", "", <<>>)

\* The source answers a listed symbol with a valid price.
ValidAnswer(answer) ==
    /\ answer.status = "ok"
    /\ answer.body = "price"
    /\ ParseFloat(answer.price).ok
    /\ FPositive(ParseFloat(answer.price).v)

\* retries = 3
retries == 3

\* What one pass of the try block of get_price ends in: a value, or the
\* exception raised.  response.json() on a body that is not JSON raises
\* requests.exceptions.JSONDecodeError, a RequestException, with requests
\* 2.27 and later, and a plain ValueError before (jsonIsRequestException).
TryRequest(resp, jsonIsRequestException) ==
    IF resp.status # "ok" THEN "RequestException"
    ELSE IF resp.body = "bad_json"
         THEN IF jsonIsRequestException THEN "RequestException" ELSE "ValueError"
    ELSE IF resp.body = "no_key" THEN "KeyError"
    ELSE IF resp.body = "null" THEN "TypeError"
    ELSE IF ParseFloat(resp.price).ok THEN "value" ELSE "ValueError"

\* LoopStep with a loop that runs once too often (range(retries + 1)).
LoopStepOneMore(n, ended) ==
    CASE ended = "value" -> "return"
      [] ended = "RequestException" -> IF n <= retries THEN "continue" ELSE "none"
      [] ended \in {"KeyError", "ValueError"} -> "none"
      [] OTHER -> "raise"

\* The loop of get_price after its n-th request ended in `ended`:
\* "continue" (next pass), "return" (the value), "none" (return None) or
\* "raise" (an exception neither except clause catches).
LoopStep(n, ended) ==
    CASE ended = "value" -> "return"
      [] ended = "RequestException" -> IF n < retries THEN "continue" ELSE "none"
      [] ended \in {"KeyError", "ValueError"} -> "none"
      [] OTHER -> "raise"

\* ------------------------------------------------------------- user inputs
\* The texts a user sends: 0,01, nan, abc, -1 and 0.
Texts ==
    { <<"0", ",", "0", "1">>, <<"n", "a", "n">>, <<"a", "b", "c">>,
      <<"-", "1">>, <<"0">> }

\* ------------------------------------------------------------------- state
VARIABLES
    present,     \* the users who talk to the bot
    conv,        \* per user: the ConversationHandler's state, INPUT_AMOUNT or END
    user_data,   \* per user: context.user_data
    db,          \* the rows of the transactions table, in insertion order
    csv,         \* transactions.csv: whether it exists, and its rows
    call,        \* the get_price call in progress, which blocks the event loop
    jsonIsRequestException,  \* the installed requests raises its own JSONDecodeError
    now,         \* the second CURRENT_TIMESTAMP of the durable store reads
    shown,       \* per user: the summaries on display whose buttons can be pressed
    pressed,     \* the summary of the message whose button was pressed last
    last         \* the event handled last: its handler, input, reply and effects
                 \* (pre: the session process_amount or handle_confirmation
                 \* found; first, resp: the responses to the first request
                 \* of get_price and to the one that ended its loop; got,
                 \* value: how get_price ended and the value it returned;
                 \* hist: the rows get_history returned)

vars == <<present, conv, user_data, db, csv, call, jsonIsRequestException,
          now, shown, pressed, last>>

NoResponse == Response("none", "", <<>>)

NoCall ==
    [active |-> FALSE, u |-> 0, op |-> "", symbol |-> "", n |-> 0, healthy |-> FALSE]

\* The record of an event of user u handled by h, before its effects are set.
Event(h, u) ==
    [h |-> h, u |-> u, data |-> "", text |-> <<>>, reply |-> "",
     pre |-> EmptyDict, preConv |-> conv[u],
     requests |-> 0, first |-> NoResponse, resp |-> NoResponse,
     got |-> "n/a", value |-> NaN, healthy |-> FALSE,
     dbOk |-> TRUE, csvOut |-> "ok", dbAdded |-> 0, csvAdded |-> 0,
     hist |-> <<>>]

NoSummary == [shown |-> FALSE]

\* No user is in a conversation or has a session.
Idle ==
    /\ conv = [u \in Users |-> "END"]
    /\ user_data = [u \in Users |-> EmptyDict]

\* The sinks, the clock and the messages after construction.
Fresh ==
    /\ db = <<>>
    /\ csv = [exists |-> FALSE, rows |-> <<>>]
    /\ call = NoCall
    /\ now = 0
    /\ shown = [u \in Users |-> <<>>]
    /\ pressed = NoSummary
    /\ last = [h |-> "init", u |-> 0, data |-> "", text |-> <<>>, reply |-> "",
               pre |-> EmptyDict, preConv |-> "END",
               requests |-> 0, first |-> NoResponse, resp |-> NoResponse,
               got |-> "n/a", value |-> NaN, healthy |-> FALSE,
               dbOk |-> TRUE, csvOut |-> "ok", dbAdded |-> 0, csvAdded |-> 0,
               hist |-> <<>>]

\* One user talks to the bot.
Init ==
    /\ present \in {{101}, {202}}
    /\ jsonIsRequestException \in BOOLEAN
    /\ Idle
    /\ Fresh

\* ------------------------------------------------------------------- start
\* The entry point: /start of a user who is in no conversation.
Start(u) ==
    /\ ~call.active
    /\ conv[u] = "END"
    /\ conv' = [conv EXCEPT ![u] = "INPUT_AMOUNT"]
    /\ last' = [Event("start", u) EXCEPT !.data = "/start", !.reply = "menu"]
    /\ UNCHANGED <<user_data, db, csv, call, jsonIsRequestException, present>>

\* --------------------------------------------------------- handle_operation
\* context.user_data.clear(); context.user_data["operation"] = operation
SessionAfterSelection(operation) == Put(EmptyDict, "operation", operation)

\* The session handle_operation leaves when the price lookup failed: the
\* except branch replies and returns, and does not touch user_data.
SessionAfterFailedFetch(ud) == ud

\* Any button pressed by a user in INPUT_AMOUNT: the CallbackQueryHandler of
\* that state has no pattern, so it takes confirm and cancel presses too.
HandleOperation(u, data) ==
    /\ ~call.active
    /\ conv[u] = "INPUT_AMOUNT"
    /\ user_data' = [user_data EXCEPT ![u] = SessionAfterSelection(data)]
    /\ IF data = "cleaning"
       THEN /\ last' = [Event("handle_operation", u) EXCEPT
                          !.data = data, !.reply = "prompt_cleaning"]
            /\ UNCHANGED <<conv, call>>
       ELSE IF Len(Split(data)) # 2
       THEN \* the unpacking raises ValueError, which the except branch takes
            /\ conv' = [conv EXCEPT ![u] = "END"]
            /\ last' = [Event("handle_operation", u) EXCEPT
                          !.data = data, !.reply = "operation_error"]
            /\ UNCHANGED call
       ELSE /\ call' = [active |-> TRUE, u |-> u, op |-> data,
                        symbol |-> PairSymbol(data), n |-> 0, healthy |-> TRUE]
            /\ last' = [Event("handle_operation", u) EXCEPT
                          !.data = data, !.got = "pending", !.healthy = TRUE]
            /\ UNCHANGED conv
    /\ UNCHANGED <<db, csv, jsonIsRequestException, present>>

\* `if not price`: get_price gave no usable price.
NoPrice(got, v) == got # "return" \/ ~Truthy(v)

\* One pass of the loop of get_price within handle_operation, and, when the
\* loop ends, the rest of handle_operation.
Attempt(answer) ==
    /\ call.active
    /\ LET u     == call.u
           resp  == Respond(call.symbol, answer)
           n     == call.n + 1
           step  == LoopStep(n, TryRequest(resp, jsonIsRequestException))
           well  == call.healthy /\ ValidAnswer(answer)
           v     == ParseFloat(resp.price).v
           first == IF n = 1 THEN resp ELSE last.first
       IN  IF step = "continue"
           THEN /\ call' = [call EXCEPT !.n = n, !.healthy = well]
                /\ last' = [last EXCEPT !.requests = n, !.healthy = well,
                              !.first = first]
                /\ UNCHANGED <<conv, user_data>>
           ELSE /\ call' = NoCall
                /\ IF NoPrice(step, v)
                   THEN /\ user_data' =
                              [user_data EXCEPT ![u] = SessionAfterFailedFetch(@)]
                        /\ conv' = [conv EXCEPT ![u] = "END"]
                        /\ last' = [last EXCEPT !.requests = n, !.resp = resp,
                                      !.first = first,
                                      !.healthy = well, !.got = step,
                                      !.value = IF step = "return" THEN v ELSE NaN,
                                      !.reply = "operation_error"]
                   ELSE /\ user_data' = [user_data EXCEPT ![u] = Put(@, "price", v)]
                        /\ UNCHANGED conv
                        /\ last' = [last EXCEPT !.requests = n, !.resp = resp,
                                      !.first = first,
                                      !.healthy = well, !.got = step, !.value = v,
                                      !.reply = "prompt_amount"]
    /\ UNCHANGED <<db, csv, jsonIsRequestException, present>>

\* ----------------------------------------------------------- process_amount
\* Rejected without the check amount <= 0.
RejectedUnparsedOnly(text) == ~ParseFloat(ReplaceComma(text)).ok

\* The amount is rejected: float() raised, or amount <= 0.
Rejected(text) ==
    LET parsed == ParseFloat(ReplaceComma(text))
    IN  ~parsed.ok \/ FLeZero(parsed.v)

\* The commission and the result for an operation, an amount and the session
\* ud; ok = FALSE when the computation raises: the unpacking of a split
\* that has not two parts, arithmetic on a price that is None, a division by 0.
Calculate(operation, amount, ud) ==
    LET failed == [ok |-> FALSE, commission |-> NaN, result |-> NaN]
        done(calculated, rate) ==
            [ok |-> TRUE, commission |-> FMul(calculated, rate),
             result |-> FSub(calculated, FMul(calculated, rate))]
    IN  IF operation = "cleaning"
        THEN done(amount, EXCHANGE_TYPES.cleaning)
        ELSE IF Len(Split(operation)) # 2 \/ ~Has(ud, "price") THEN failed
        ELSE IF Split(operation)[1] = "USDT"
             THEN IF FDiv(amount, ud["price"]).ok
                  THEN done(FDiv(amount, ud["price"]).v, EXCHANGE_TYPES.crypto)
                  ELSE failed
             ELSE done(FMul(amount, ud["price"]), EXCHANGE_TYPES.crypto)

\* user_data.update({"from_amount": ..., "to_amount": ..., "commission": ...})
WithAmounts(ud, amount, c) ==
    Put(Put(Put(ud, "from_amount", amount), "to_amount", c.result),
        "commission", c.commission)

\* A text that is no command, sent by a user in INPUT_AMOUNT.
ProcessAmount(u, text) ==
    /\ ~call.active
    /\ conv[u] = "INPUT_AMOUNT"
    /\ LET ud     == user_data[u]
           amount == ParseFloat(ReplaceComma(text)).v
           ev     == [Event("process_amount", u) EXCEPT !.text = text, !.pre = ud]
       IN  IF Rejected(text)
           THEN /\ last' = [ev EXCEPT !.reply = "validation_error"]
                /\ UNCHANGED <<conv, user_data>>
           ELSE IF ~Has(ud, "operation")
           THEN /\ last' = [ev EXCEPT !.reply = "session_expired"]
                /\ conv' = [conv EXCEPT ![u] = "END"]
                /\ UNCHANGED user_data
           ELSE LET ud1 == Put(ud, "user", UserInfo(u))
                    c   == Calculate(ud["operation"], amount, ud1)
                IN  IF ~c.ok
                    THEN \* the exception leaves the handler: no reply, and
                         \* the conversation keeps its state
                         /\ user_data' = [user_data EXCEPT ![u] = ud1]
                         /\ last' = [ev EXCEPT !.reply = "", !.got = "raise"]
                         /\ UNCHANGED conv
                    ELSE /\ user_data' =
                               [user_data EXCEPT ![u] = WithAmounts(ud1, amount, c)]
                         /\ conv' = [conv EXCEPT ![u] = "END"]
                         /\ last' = [ev EXCEPT !.reply = "summary"]
    /\ UNCHANGED <<db, csv, call, jsonIsRequestException, present>>

\* Calculate as CPython computes it: every operation rounds to binary64.
Calculate64(operation, amount, ud) ==
    LET failed == [ok |-> FALSE, commission |-> NaN, result |-> NaN]
        done(calculated, rate) ==
            [ok |-> TRUE, commission |-> FMul64(calculated, Binary64(rate)),
             result |-> FSub64(calculated, FMul64(calculated, Binary64(rate)))]
    IN  IF operation = "cleaning"
        THEN done(amount, EXCHANGE_TYPES.cleaning)
        ELSE IF Len(Split(operation)) # 2 \/ ~Has(ud, "price") THEN failed
        ELSE IF Split(operation)[1] = "USDT"
             THEN IF FDiv64(amount, ud["price"]).ok
                  THEN done(FDiv64(amount, ud["price"]).v, EXCHANGE_TYPES.crypto)
                  ELSE failed
             ELSE done(FMul64(amount, ud["price"]), EXCHANGE_TYPES.crypto)

\* ProcessAmount with the amount held and the summary computed in binary64.
ProcessAmount64(u, text) ==
    /\ ~call.active
    /\ conv[u] = "INPUT_AMOUNT"
    /\ LET ud     == user_data[u]
           amount == Binary64(ParseFloat(ReplaceComma(text)).v)
           ev     == [Event("process_amount", u) EXCEPT !.text = text, !.pre = ud]
       IN  IF Rejected(text)
           THEN /\ last' = [ev EXCEPT !.reply = "validation_error"]
                /\ UNCHANGED <<conv, user_data>>
           ELSE IF ~Has(ud, "operation")
           THEN /\ last' = [ev EXCEPT !.reply = "session_expired"]
                /\ conv' = [conv EXCEPT ![u] = "END"]
                /\ UNCHANGED user_data
           ELSE LET ud1 == Put(ud, "user", UserInfo(u))
                    c   == Calculate64(ud["operation"], amount, ud1)
                IN  IF ~c.ok
                    THEN /\ user_data' = [user_data EXCEPT ![u] = ud1]
                         /\ last' = [ev EXCEPT !.reply = "", !.got = "raise"]
                         /\ UNCHANGED conv
                    ELSE /\ user_data' =
                               [user_data EXCEPT ![u] = WithAmounts(ud1, amount, c)]
                         /\ conv' = [conv EXCEPT ![u] = "END"]
                         /\ last' = [ev EXCEPT !.reply = "summary"]
    /\ UNCHANGED <<db, csv, call, jsonIsRequestException, present>>

\* ------------------------------------------------------ handle_confirmation
\* The keys handle_confirmation reads before it writes.
ConfirmKeys == {"user", "operation", "from_amount", "to_amount", "commission"}

\* A float bound to a parameter of the INSERT: SQLite stores nan as NULL.
Bind(x) == IF x.k = "nan" THEN Null ELSE x

\* The row save_transaction inserts; the id is AUTOINCREMENT and the
\* timestamp defaults to CURRENT_TIMESTAMP, which counts whole seconds.
TransactionRow(rows, ud, t) ==
    [id |-> Len(rows) + 1, user_id |-> ud["user"].id,
     username |-> ud["user"].username, operation |-> ud["operation"],
     from_amount |-> Bind(ud["from_amount"]), to_amount |-> Bind(ud["to_amount"]),
     commission |-> Bind(ud["commission"]), timestamp |-> t]

\* The dict handle_confirmation passes to save_to_csv, as a row.
CsvRow(ud) ==
    [kind |-> "data", user_id |-> ud["user"].id,
     username |-> ud["user"].username, operation |-> ud["operation"],
     from_amount |-> ud["from_amount"], to_amount |-> ud["to_amount"],
     commission |-> ud["commission"]]

HeaderRow == [kind |-> "header"]

\* save_to_csv: "ok" writes the header if the file did not exist and then
\* the row; "open_fail" is open() raising; "write_fail" is a write raising
\* after open() created the file.  The exception is logged, not raised.
SaveToCsv(file, row, outcome) ==
    CASE outcome = "ok" ->
           [exists |-> TRUE,
            rows |-> IF file.exists THEN Append(file.rows, row)
                     ELSE file.rows \o <<HeaderRow, row>>]
      [] outcome = "write_fail" -> [file EXCEPT !.exists = TRUE]
      [] OTHER -> file

CsvOutcomes == {"ok", "open_fail", "write_fail"}

\* The reply to a confirm press whose session holds every key: the except
\* branch is taken only if save_transaction raised.
ConfirmReply(dbOk, csvOut) == IF dbOk THEN "saved" ELSE "save_error"

\* SessionAfterConfirmation without the clear().
SessionKept(ud) == ud

\* context.user_data.clear() at the end of handle_confirmation.
SessionAfterConfirmation(ud) == EmptyDict

\* A confirm or cancel button pressed by a user who is in no conversation.
HandleConfirmation(u, choice) ==
    /\ ~call.active
    /\ conv[u] = "END"
    /\ LET ud == user_data[u]
           ev == [Event("handle_confirmation", u) EXCEPT !.data = choice, !.pre = ud]
       IN  IF choice # "confirm"
           THEN /\ last' = [ev EXCEPT !.reply = "cancelled"]
                /\ UNCHANGED <<db, csv>>
           ELSE IF ~(ConfirmKeys \subseteq DOMAIN ud)
           THEN \* KeyError, taken by the except branch
                /\ last' = [ev EXCEPT !.reply = "save_error"]
                /\ UNCHANGED <<db, csv>>
           ELSE \E dbOk \in BOOLEAN, csvOut \in CsvOutcomes :
                  IF ~dbOk
                  THEN /\ last' = [ev EXCEPT !.reply = ConfirmReply(dbOk, csvOut),
                                     !.dbOk = FALSE]
                       /\ UNCHANGED <<db, csv>>
                  ELSE /\ db' = Append(db, TransactionRow(db, ud, now))
                       /\ csv' = SaveToCsv(csv, CsvRow(ud), csvOut)
                       /\ last' = [ev EXCEPT !.reply = ConfirmReply(dbOk, csvOut),
                                     !.csvOut = csvOut,
                                     !.dbAdded = Len(db') - Len(db),
                                     !.csvAdded = Len(SelectSeq(csv'.rows, LAMBDA r : r.kind = "data"))
                                                  - Len(SelectSeq(csv.rows, LAMBDA r : r.kind = "data"))]
    /\ user_data' = [user_data EXCEPT ![u] = SessionAfterConfirmation(@)]
    /\ UNCHANGED <<conv, call, jsonIsRequestException, present>>

\* ------------------------------------------------------------ other events
\* /cancel of a user in INPUT_AMOUNT: the fallback returns END and does
\* nothing else.
CancelCommand(u) ==
    /\ ~call.active
    /\ conv[u] = "INPUT_AMOUNT"
    /\ conv' = [conv EXCEPT ![u] = "END"]
    /\ last' = [Event("cancel_command", u) EXCEPT !.data = "/cancel"]
    /\ UNCHANGED <<user_data, db, csv, call, jsonIsRequestException, present>>

\* A text that is no command, sent by a user who is in no conversation.
HandleText(u) ==
    /\ ~call.active
    /\ conv[u] = "END"
    /\ last' = [Event("handle_text", u) EXCEPT !.reply = "use_buttons"]
    /\ UNCHANGED <<conv, user_data, db, csv, call, jsonIsRequestException, present>>

\* The events no handler takes: /start in INPUT_AMOUNT, and /cancel or a
\* menu button in END.
Unhandled(u, data) ==
    /\ ~call.active
    /\ \/ conv[u] = "INPUT_AMOUNT" /\ data = "/start"
       \/ conv[u] = "END" /\ data \in MenuButtons \cup {"/cancel"}
    /\ last' = [Event("none", u) EXCEPT !.data = data]
    /\ UNCHANGED <<conv, user_data, db, csv, call, jsonIsRequestException, present>>

\* ------------------------------------------------------------ show_history
\* HistoryRows without the WHERE clause.
HistoryRowsOfAll(rows, user_id) == rows

\* WHERE user_id = ?
HistoryRows(rows, user_id) == SelectSeq(rows, LAMBDA r : r.user_id = user_id)

\* ORDER BY timestamp DESC
TimestampDescending(h) ==
    \A i, j \in 1..Len(h) : i < j => h[i].timestamp >= h[j].timestamp

\* The results get_history can return: the user's rows, newest second first.
\* The query orders by the timestamp alone, so the order of rows of one
\* second is whatever SQLite produces (the column id identifies the rows
\* here; the query does not select it).
GetHistory(rows, user_id) ==
    LET mine == HistoryRows(rows, user_id)
        n == Len(mine)
        orders == {p \in [1..n -> 1..n] : \A i, j \in 1..n : i # j => p[i] # p[j]}
    IN  {h \in {[i \in 1..n |-> mine[p[i]]] : p \in orders} : TimestampDescending(h)}

\* /history, which no conversation state takes for itself.
ShowHistory(u) ==
    /\ ~call.active
    /\ \E h \in GetHistory(db, u) :
         last' = [Event("show_history", u) EXCEPT
                    !.data = "/history",
                    !.reply = IF h = <<>> THEN "history_empty" ELSE "history",
                    !.hist = h]
    /\ UNCHANGED <<conv, user_data, db, csv, call, jsonIsRequestException, present>>

\* ------------------------------------------------- time and shown messages
\* A second passes.
Tick ==
    /\ now < MaxTime
    /\ now' = now + 1
    /\ UNCHANGED <<present, conv, user_data, db, csv, call, jsonIsRequestException,
                   shown, pressed, last>>

\* What the summary message of process_amount displays (the values its
\* text is formatted from).
Summary(ud) ==
    [shown |-> TRUE, operation |-> ud["operation"],
     from_amount |-> ud["from_amount"], to_amount |-> ud["to_amount"],
     commission |-> ud["commission"]]

\* Neither the clock nor the messages on display change.
Frame == UNCHANGED <<now, shown, pressed>>

\* ----------------------------------------------------------- specification
\* One user, every button, answer and text, within one second; /history is
\* left to SpecLedger and SpecTwo.
Next ==
    \/ \E u \in present : Start(u) /\ Frame
    \/ \E u \in present, data \in MenuButtons \cup ConfirmButtons :
         HandleOperation(u, data) /\ Frame
    \/ \E answer \in Answers : Attempt(answer) /\ Frame
    \/ \E u \in present, text \in Texts : ProcessAmount(u, text) /\ Frame
    \/ \E u \in present, choice \in ConfirmButtons :
         HandleConfirmation(u, choice) /\ Len(db') <= MaxRows /\ Frame
    \/ \E u \in present : CancelCommand(u) /\ Frame
    \/ \E u \in present : HandleText(u) /\ Frame
    \/ \E u \in present, data \in MenuButtons \cup {"/start", "/cancel"} :
         Unhandled(u, data) /\ Frame

Spec == Init /\ [][Next]_vars

\* ------------------------------------------------- specification: ledger
\* The texts of the ledger: 0,01 and abc.
LedgerTexts == { <<"0", ",", "0", "1">>, <<"a", "b", "c">> }

InitLedger ==
    /\ present = {101}
    /\ jsonIsRequestException = TRUE
    /\ Idle
    /\ Fresh

\* One user who cleans 0,01 again and again while the seconds pass and the
\* sinks fail or not, and who asks for the history.
NextLedger ==
    \/ \E u \in present : Start(u) /\ Frame
    \/ \E u \in present : HandleOperation(u, "cleaning") /\ Frame
    \/ \E u \in present, text \in LedgerTexts : ProcessAmount(u, text) /\ Frame
    \/ \E u \in present, choice \in ConfirmButtons :
         HandleConfirmation(u, choice) /\ Len(db') <= MaxLedgerRows /\ Frame
    \/ \E u \in present : ShowHistory(u) /\ Frame
    \/ Tick

SpecLedger == InitLedger /\ [][NextLedger]_vars

\* ---------------------------------------------- specification: two users
\* The buttons, answers and texts of two users: Cleaning and BTC to USDT, a
\* timeout or the price 50000; 101 sends the text 0,01 and 202 the text 2,
\* so that an amount tells whose it is.
TwoButtons == {"cleaning", "BTC-USDT"}

TwoAnswers ==
    { Response("timeout", "", <<>>),
      Response("ok", "price", <<"5", "0", "0", "0", "0">>) }

TwoTexts(u) == IF u = 101 THEN { <<"0", ",", "0", "1">> } ELSE { <<"2">> }

InitTwo ==
    /\ present = Users
    /\ jsonIsRequestException = TRUE
    /\ Idle
    /\ Fresh

\* The events of two users, interleaved as the event loop takes them; both
\* sinks are writable.
NextTwo ==
    \/ \E u \in present : Start(u) /\ Frame
    \/ \E u \in present, data \in TwoButtons : HandleOperation(u, data) /\ Frame
    \/ \E answer \in TwoAnswers : Attempt(answer) /\ Frame
    \/ \E u \in present : \E text \in TwoTexts(u) : ProcessAmount(u, text) /\ Frame
    \/ \E u \in present, choice \in ConfirmButtons :
         /\ HandleConfirmation(u, choice)
         /\ last'.dbOk /\ last'.csvOut = "ok"
         /\ Len(db') <= MaxTwoRows
         /\ Frame
    \/ \E u \in present : ShowHistory(u) /\ Frame

SpecTwo == InitTwo /\ [][NextTwo]_vars

\* ------------------------------------------------ specification: buttons
\* The texts of a user who asks for more than one summary: 0,01 and 2.
ButtonTexts == { <<"0", ",", "0", "1">>, <<"2">> }

InitButtons ==
    /\ present = {101}
    /\ jsonIsRequestException = TRUE
    /\ Idle
    /\ Fresh

\* process_amount, and its summary message when it sends one.
ProcessAmountShown(u, text) ==
    /\ ProcessAmount(u, text)
    /\ shown' = IF last'.reply = "summary"
                THEN [shown EXCEPT ![u] = Append(@, Summary(user_data'[u]))]
                ELSE shown
    /\ Len(shown'[u]) <= MaxShown
    /\ UNCHANGED <<now, pressed>>

\* A button of the i-th summary on display is pressed by a user who is in no
\* conversation: handle_confirmation, whose edit_message_text takes the
\* buttons off that message.
Press(u, i, choice) ==
    /\ HandleConfirmation(u, choice)
    /\ Len(db') <= MaxRows
    /\ pressed' = shown[u][i]
    /\ shown' = [shown EXCEPT ![u] = SubSeq(@, 1, i - 1) \o SubSeq(@, i + 1, Len(@))]
    /\ UNCHANGED now

\* One user who may start again and get a second summary while the first is
\* still on display, and who presses the buttons of either.
NextButtons ==
    \/ \E u \in present : Start(u) /\ Frame
    \/ \E u \in present, data \in TwoButtons : HandleOperation(u, data) /\ Frame
    \/ \E answer \in TwoAnswers : Attempt(answer) /\ Frame
    \/ \E u \in present, text \in ButtonTexts : ProcessAmountShown(u, text)
    \/ \E u \in present, choice \in ConfirmButtons :
         \E i \in 1..Len(shown[u]) : Press(u, i, choice)

SpecButtons == InitButtons /\ [][NextButtons]_vars

\* -------------------------------------------- specification: calculation
\* The amounts sent, and the rates a session holds: what the quote source
\* returned for BTCUSDT or ETHUSDT.
CalcTexts ==
    { <<"0", ",", "0", "1">>, <<"0", ".", "0", "2">>, <<"0", ".", "0", "3">>,
      <<"0", ".", "1">>, <<"0", ".", "3">>, <<"1">>, <<"2">>, <<"7">>,
      <<"0", ".", "0", "7">>, <<"1", "2", ".", "5">> }

CalcPrices ==
    { <<"5", "0", "0", "0", "0">>, <<"3", "0", "0", "0", ".", "5">>,
      <<"0", ".", "0", "7">>, <<"2">>, <<"0", ".", "3">> }

\* The sessions that wait for their amount: Cleaning, or a pair with its rate.
CalcSessions ==
    { SessionAfterSelection("cleaning") }
    \cup { Put(SessionAfterSelection(op), "price", Binary64(ParseFloat(price).v)) :
             op \in {"BTC-USDT", "ETH-USDT"}, price \in CalcPrices }

\* User 101 has selected an operation, the rate has been fetched, and the
\* amount is awaited.
InitCalc ==
    /\ present = {101}
    /\ jsonIsRequestException = TRUE
    /\ Fresh
    /\ \E ud \in CalcSessions :
         /\ conv = [u \in Users |-> IF u = 101 THEN "INPUT_AMOUNT" ELSE "END"]
         /\ user_data = [u \in Users |-> IF u = 101 THEN ud ELSE EmptyDict]

NextCalc == \E u \in present, text \in CalcTexts : ProcessAmount64(u, text) /\ Frame

SpecCalc == InitCalc /\ [][NextCalc]_vars

\* ------------------------------------------------------------------ claims
\* handle_operation has finished a price lookup: get_price returned or raised.
FetchDone == last.h = "handle_operation" /\ last.got \in {"return", "none", "raise"}

\* A successful response whose payload is malformed.
Malformed(resp) ==
    /\ resp.status = "ok"
    /\ \/ resp.body \in {"bad_json", "no_key", "null"}
       \/ resp.body = "price" /\ ~ParseFloat(resp.price).ok

\* The Convert buttons of the start menu.
ConvertButtons == MenuButtons \ {"cleaning"}

\* The session holds a summary that waits for its confirmation.
AwaitingConfirmation(ud) == ConfirmKeys \subseteq DOMAIN ud

DataRows(rows) == SelectSeq(rows, LAMBDA r : r.kind = "data")

\* C1: get_price makes at most 3 requests per call; a call whose last
\* request failed at the network layer made exactly 3 requests and returned
\* None without raising; a call whose third request (after two retried
\* failures) is answered with a price returns that price.
C1_RetryAtMostThree ==
    /\ call.active => call.n < retries
    /\ FetchDone =>
         /\ last.requests \in 1..retries
         /\ last.resp.status # "ok" =>
              last.requests = retries /\ last.got = "none"
         /\ (/\ last.requests = retries
             /\ last.resp.status = "ok"
             /\ last.resp.body = "price"
             /\ ParseFloat(last.resp.price).ok) =>
              last.got = "return" /\ last.value = ParseFloat(last.resp.price).v

\* C1 witness: two requests failed and the third returned the price 50000.
C1_Witness ==
    /\ FetchDone
    /\ last.requests = retries
    /\ last.first.status # "ok"
    /\ last.got = "return"
    /\ last.value = Num(50000, 1)

\* C2 (as claimed): when the first request is answered by a successful
\* response with a malformed payload, get_price makes exactly 1 request and
\* returns None.
C2_MalformedNotRetried ==
    (FetchDone /\ Malformed(last.first)) =>
        last.requests = 1 /\ last.got = "none"

\* C3 (as claimed): a price get_price returns is strictly positive, and so
\* is the rate stored in any session.
C3_PricePositive ==
    /\ (FetchDone /\ last.got = "return") => FPositive(last.value)
    /\ \A u \in Users :
         Has(user_data[u], "price") => FPositive(user_data[u]["price"])

\* C4 (as claimed): for every Convert button of the start menu, pressed in
\* INPUT_AMOUNT while the source answers its listed symbols with a valid
\* price, the rate is stored, the amount is prompted for and the
\* conversation stays in INPUT_AMOUNT.
C4_OfferedPairGetsRate ==
    (FetchDone /\ last.data \in ConvertButtons /\ last.healthy) =>
        /\ Has(user_data[last.u], "price")
        /\ last.reply = "prompt_amount"
        /\ conv[last.u] = "INPUT_AMOUNT"

\* C5 (as claimed): after a Convert selection whose price lookup failed, the
\* error reply is sent, the conversation is END and the session is empty.
C5_FailedFetchClearsSession ==
    (FetchDone /\ last.data \in ConvertButtons /\ ~Has(user_data[last.u], "price")) =>
        /\ last.reply = "operation_error"
        /\ conv[last.u] = "END"
        /\ user_data[last.u] = EmptyDict

\* C6 (as claimed): a text in INPUT_AMOUNT of a user whose session holds no
\* operation is answered, whatever the text, with the session-expired
\* message; the conversation ends and nothing is calculated or persisted.
C6_StaleAmountExpires ==
    (last.h = "process_amount" /\ ~Has(last.pre, "operation")) =>
        /\ last.reply = "session_expired"
        /\ conv[last.u] = "END"
        /\ user_data[last.u] = last.pre
        /\ last.dbAdded = 0 /\ last.csvAdded = 0

\* C7 (as claimed): a confirm press of a user with no session awaiting
\* confirmation is answered with the session-expired reply, writes nothing
\* and ends in END.
C7_StaleConfirmExpires ==
    (/\ last.h = "handle_confirmation"
     /\ last.data = "confirm"
     /\ ~AwaitingConfirmation(last.pre)) =>
        /\ last.reply = "session_expired"
        /\ last.dbAdded = 0 /\ last.csvAdded = 0
        /\ conv[last.u] = "END"

\* C8 (as claimed): a confirm whose insert or whose append failed is
\* answered with the save-failure reply, and the success reply is sent only
\* when a row went to the store and a row went to the log.
C8_SinkFailureReported ==
    (last.h = "handle_confirmation" /\ last.data = "confirm") =>
        /\ (~last.dbOk \/ last.csvOut # "ok") => last.reply = "save_error"
        /\ last.reply = "saved" => last.dbAdded = 1 /\ last.csvAdded = 1

\* C9 (as claimed): a confirm of a session awaiting confirmation, with both
\* sinks writable, adds exactly one row to the store and one to the log,
\* both with the session's user id, display name, operation, from_amount,
\* to_amount and commission unchanged; 0.01 BTC at the rate 50000 is stored
\* as 0.01, 490 and 10.
C9_ConfirmWritesSessionToBothSinks ==
    (/\ last.h = "handle_confirmation"
     /\ last.data = "confirm"
     /\ AwaitingConfirmation(last.pre)
     /\ last.dbOk /\ last.csvOut = "ok") =>
        LET s == last.pre
            r == db[Len(db)]
            c == csv.rows[Len(csv.rows)]
            same(x) ==
                /\ x.user_id = last.u
                /\ x.username = DisplayName(last.u)
                /\ x.operation = s["operation"]
                /\ x.from_amount = s["from_amount"]
                /\ x.to_amount = s["to_amount"]
                /\ x.commission = s["commission"]
        IN  /\ last.dbAdded = 1 /\ last.csvAdded = 1
            /\ db # <<>> /\ csv.rows # <<>>
            /\ c.kind = "data"
            /\ same(r) /\ same(c)
            /\ (/\ s["operation"] = "BTC-USDT"
                /\ s["price"] = Num(50000, 1)
                /\ s["from_amount"] = Num(1, 100)) =>
                 /\ r.to_amount = Num(490, 1) /\ r.commission = Num(10, 1)
                 /\ c.to_amount = Num(490, 1) /\ c.commission = Num(10, 1)

\* C10: after a confirm or cancel press of a session awaiting confirmation
\* the session is empty and the conversation is END, whether the save
\* succeeded, failed or was not made; a failed save wrote nothing and leaves
\* nothing to save again.
C10_ConfirmationEndsSession ==
    (last.h = "handle_confirmation" /\ AwaitingConfirmation(last.pre)) =>
        /\ user_data[last.u] = EmptyDict
        /\ conv[last.u] = "END"
        /\ ~last.dbOk => last.dbAdded = 0 /\ last.csvAdded = 0
        /\ last.data = "cancel" => last.dbAdded = 0 /\ last.csvAdded = 0

\* C10 witness: a confirm whose insert failed.
C10_Witness ==
    /\ last.h = "handle_confirmation"
    /\ last.data = "confirm"
    /\ AwaitingConfirmation(last.pre)
    /\ ~last.dbOk
    /\ last.reply = "save_error"

\* C11 (as claimed): the cancel command, in whatever state it arrives, is
\* answered with a reply, leaves the conversation in END and leaves the
\* user's session empty.
C11_CancelDestroysSession ==
    last.data = "/cancel" =>
        /\ last.reply # ""
        /\ conv[last.u] = "END"
        /\ user_data[last.u] = EmptyDict

\* x >= 0 on a stored amount.
FGeZero(x) == x.k \in {"num", "inf"} /\ x.n >= 0

\* C14 (as claimed): every row of the durable store has from_amount > 0 and
\* commission >= 0, and a Clean row has to_amount = from_amount - commission;
\* the summary that a confirm stores has to_amount = base - commission, the
\* base being the amount (Clean) or the amount times or over the rate.
C14_StoredAmountsSound ==
    /\ \A i \in 1..Len(db) :
         /\ db[i].from_amount.k \in {"num", "inf"} /\ db[i].from_amount.n > 0
         /\ FGeZero(db[i].commission)
         /\ db[i].operation = "cleaning" =>
              db[i].to_amount = FSub(db[i].from_amount, db[i].commission)
    /\ (last.h = "process_amount" /\ last.reply = "summary") =>
         LET s == user_data[last.u]
             a == s["from_amount"]
             base == IF s["operation"] = "cleaning" THEN a
                     ELSE IF Split(s["operation"])[1] = "USDT"
                          THEN FDiv(a, s["price"]).v
                          ELSE FMul(a, s["price"])
         IN  s["to_amount"] = FSub(base, s["commission"])

\* The text does not parse as a number, or parses to a value that is not
\* above zero.
Invalid(text) ==
    LET parsed == ParseFloat(ReplaceComma(text))
    IN  parsed.ok => (parsed.v.k \in {"num", "inf"} /\ parsed.v.n <= 0)

C20_LogRowsAreStoreRows ==
    /\ \A i \in 1..Len(csv.rows) :
         csv.rows[i].kind = "data" =>
           \E j \in 1..Len(db) :
             /\ db[j].user_id = csv.rows[i].user_id
             /\ db[j].operation = csv.rows[i].operation
             /\ db[j].from_amount = csv.rows[i].from_amount
             /\ db[j].to_amount = csv.rows[i].to_amount
             /\ db[j].commission = csv.rows[i].commission
    /\ Len(DataRows(csv.rows)) <= Len(db)

\* The sequence h from its last element to its first.
Reverse(h) == [i \in 1..Len(h) |-> h[Len(h) + 1 - i]]

\* C12 (as claimed): the history of a user is the user's rows from the one
\* recorded last to the one recorded first: newest timestamp first, rows of
\* one timestamp by descending id.
C12_HistoryNewestFirst ==
    last.h = "show_history" =>
        last.hist = Reverse(SelectSeq(db, LAMBDA r : r.user_id = last.u))

\* C13 (as claimed): a flat log that holds rows holds the header as its
\* first row and nowhere else, whatever writes failed before.
C13_HeaderOnceAndFirst ==
    csv.rows # <<>> =>
        /\ csv.rows[1] = HeaderRow
        /\ \A i \in 2..Len(csv.rows) : csv.rows[i].kind = "data"

\* The amount user u sends under SpecTwo.
OwnAmount(u) == IF u = 101 THEN Num(1, 100) ELSE Num(2, 1)

\* The session ud holds nothing but what user u can have produced: u's
\* identity, u's amount, and the commission and result that process_amount
\* computes from them, the operation and the rate of the session.
OwnSession(u, ud) ==
    /\ Has(ud, "user") => ud["user"] = UserInfo(u)
    /\ Has(ud, "from_amount") =>
         /\ ud["from_amount"] = OwnAmount(u)
         /\ LET c == Calculate(ud["operation"], OwnAmount(u), ud)
            IN  ud["commission"] = c.commission /\ ud["to_amount"] = c.result

\* C15: with two users whose events interleave, each session holds only
\* what its user's own events produced, a summary is computed from the
\* session and the text of the user it is shown to, a confirm stores the
\* values of the presser's own session under the presser's id, an event of
\* one user changes neither the session, the conversation nor the stored
\* rows of the other, and the history of a user holds that user's rows only.
C15_UsersAreIsolated ==
    /\ [] (/\ \A u \in Users : OwnSession(u, user_data[u])
           /\ \A i \in 1..Len(db) :
                /\ db[i].username = DisplayName(db[i].user_id)
                /\ db[i].from_amount = OwnAmount(db[i].user_id)
           /\ (last.h = "process_amount" /\ last.reply = "summary") =>
                /\ user_data[last.u]["operation"] = last.pre["operation"]
                /\ Has(last.pre, "price") =>
                     user_data[last.u]["price"] = last.pre["price"]
           /\ (last.h = "handle_confirmation" /\ last.dbAdded = 1) =>
                /\ db[Len(db)].user_id = last.u
                /\ db[Len(db)].operation = last.pre["operation"]
                /\ db[Len(db)].from_amount = last.pre["from_amount"]
                /\ db[Len(db)].to_amount = last.pre["to_amount"]
                /\ db[Len(db)].commission = last.pre["commission"]
           /\ last.h = "show_history" =>
                /\ \A i \in 1..Len(last.hist) : last.hist[i].user_id = last.u
                /\ Len(last.hist) =
                     Len(SelectSeq(db, LAMBDA r : r.user_id = last.u)))
    /\ [][\A b \in Users :
            last'.u # b =>
              /\ user_data'[b] = user_data[b]
              /\ conv'[b] = conv[b]
              /\ SelectSeq(db', LAMBDA r : r.user_id = b)
                   = SelectSeq(db, LAMBDA r : r.user_id = b)]_vars

\* C15 witness: 202 reads a history that is not empty while the store holds
\* a row of 101 and 101 has a summary waiting for its confirmation.
C15_Witness ==
    /\ last.h = "show_history"
    /\ last.u = 202
    /\ last.hist # <<>>
    /\ \E i \in 1..Len(db) : db[i].user_id = 101
    /\ AwaitingConfirmation(user_data[101])
    /\ conv[202] = "INPUT_AMOUNT"

\* Some event of user b can be handled now.
CanBeHandled(b) ==
    ENABLED (\/ Start(b) /\ Frame
             \/ \E data \in MenuButtons \cup ConfirmButtons :
                  HandleOperation(b, data) /\ Frame
             \/ \E text \in Texts : ProcessAmount(b, text) /\ Frame
             \/ \E choice \in ConfirmButtons : HandleConfirmation(b, choice) /\ Frame
             \/ CancelCommand(b) /\ Frame
             \/ HandleText(b) /\ Frame
             \/ ShowHistory(b) /\ Frame)

\* C16 (as claimed): while the price lookup for one user's selection is in
\* progress, an event of every other user can be handled.
C16_FetchBlocksOnlyItsUser ==
    call.active => \A b \in present \ {call.u} : CanBeHandled(b)

\* C19 (as claimed): a confirm press that stores a row stores the
\* from_amount, to_amount and commission of the summary whose button was
\* pressed.
C19_ConfirmStoresPressedSummary ==
    (/\ last.h = "handle_confirmation"
     /\ last.data = "confirm"
     /\ pressed.shown
     /\ last.dbAdded = 1) =>
        /\ db[Len(db)].from_amount = pressed.from_amount
        /\ db[Len(db)].to_amount = pressed.to_amount
        /\ db[Len(db)].commission = pressed.commission

\* C17 (as claimed): for an accepted amount a and a stored rate p, the
\* summary of process_amount has, for Cleaning, commission = a * 0.10 and
\* result = a - commission, for a pair converted = a * p (from the base
\* asset) or a / p (from USDT), commission = converted * 0.02 and
\* result = converted - commission; and result + commission equals a
\* (Cleaning) or converted (a pair).
C17_SummaryAddsUp ==
    (last.h = "process_amount" /\ last.reply = "summary") =>
        LET s == user_data[last.u]
            a == s["from_amount"]
            base == IF s["operation"] = "cleaning" THEN a
                    ELSE IF Split(s["operation"])[1] = "USDT"
                         THEN FDiv64(a, s["price"]).v
                         ELSE FMul64(a, s["price"])
            rate == IF s["operation"] = "cleaning"
                    THEN Binary64(Num(10, 100)) ELSE Binary64(Num(2, 100))
        IN  /\ a = Binary64(ParseFloat(ReplaceComma(last.text)).v)
            /\ s["commission"] = FMul64(base, rate)
            /\ s["to_amount"] = FSub64(base, s["commission"])
            /\ FAdd64(s["to_amount"], s["commission"]) = base

====
